---- MODULE Spec2Model ----
(***************************************************************************)
(* Model of wgpu-core/src/command/mod.rs: the command-encoder lifecycle    *)
(* (finish and the three debug-marker calls over the command-buffer        *)
(* storage), CommandBuffer::insert_barriers, and push_constant_clear.      *)
(*                                                                         *)
(* Three specifications share the module:                                  *)
(*   Spec          the encoder lifecycle operations of Global              *)
(*   SpecBarriers  CommandBuffer::insert_barriers over a base/head pair    *)
(*   SpecClear     the loop of push_constant_clear                         *)
(***************************************************************************)
EXTENDS Integers, Sequences, FiniteSets, TLC

VARIABLES
    \* ---- encoder lifecycle (hub.command_buffers / hub.swap_chains) ----
    cmd_bufs,      \* Storage<CommandBuffer>: occupied encoder id -> CommandBuffer
    swap_chains,   \* Storage<SwapChain>: swap chain id -> acquired_view_id (0 = None)
    call,          \* the latest API call: [op, id, label]
    result,        \* what that call returned: [tag, id]
    ncalls,        \* number of API calls made so far
    finished_ok,   \* history: encoder ids on which finish has returned Ok
    \* ---- insert_barriers ----
    base,          \* the TrackerSet passed as `base`
    head,          \* the TrackerSet passed as `head`
    base0,         \* history: `base` as it was when insert_barriers was entered
    raw_cb,        \* the raw command buffer passed as `raw`: sequence of commands
    ib_status,     \* "idle" | "returned" | "panicked"
    ib_failing,    \* the categories whose merge_extend returned Err in the call
    \* ---- push_constant_clear ----
    offset,        \* argument `offset`
    size_bytes,    \* argument `size_bytes`
    overflow_checks, \* whether the build panics on u32 overflow (debug) or wraps
    count_words,   \* local `count_words`
    writes,        \* the push_fn invocations so far: <<byte offset, words>>
    pcc_pc,        \* "loop" | "done" | "panicked"
    \* ---- BasePass / BasePassRef ----
    pass_ref,      \* the borrowed BasePassRef given to from_ref
    pass_owned,    \* the owned BasePass
    pass_view,     \* the BasePassRef returned by as_ref
    pass_origin,   \* how pass_owned was made: "none" | "new" | "from_ref"
    pass_pc,       \* "start" | "owned" | "viewed"
    \* ---- concurrent calls on the hub ----
    threads,       \* thread -> [op, id, label, pc, result, forwarded]
    sc_readers,    \* threads holding the read guard of hub.swap_chains
    cb_writer,     \* the thread holding the write guard of hub.command_buffers
    cmd_bufs0      \* history: cmd_bufs before any thread ran

encVars == <<cmd_bufs, swap_chains, call, result, ncalls, finished_ok>>
barVars == <<base, head, base0, raw_cb, ib_status, ib_failing>>
pccVars == <<offset, size_bytes, overflow_checks, count_words, writes, pcc_pc>>
passVars == <<pass_ref, pass_owned, pass_view, pass_origin, pass_pc>>
thrVars == <<threads, sc_readers, cb_writer, cmd_bufs0>>
vars == <<cmd_bufs, swap_chains, call, result, ncalls, finished_ok,
          base, head, base0, raw_cb, ib_status, ib_failing,
          offset, size_bytes, overflow_checks, count_words, writes, pcc_pc,
          pass_ref, pass_owned, pass_view, pass_origin, pass_pc,
          threads, sc_readers, cb_writer, cmd_bufs0>>

(***************************************************************************)
(* Bounds                                                                  *)
(***************************************************************************)
NumEncoderIds == 2
NumSwapChains == 1
NumViews == 2
MaxRaw == 2
MaxCalls == 2
NumBuffers == 2
NumTextures == 1
NumExtIds == 1
MaxEntries == 3
MaxSizeBytes == 520
MaxPassLen == 2
NumThreads == 2

EncoderIds == 1..NumEncoderIds
SwapChainIds == 1..NumSwapChains
ViewIds == 1..NumViews
Labels == {"label"}

None == 0

BufferIds == 1..NumBuffers
TextureIds == 1..NumTextures
ExtIds == 1..NumExtIds
\* usages a tracker can record for a buffer or texture, and the usage of a
\* resource it does not hold
Usages == {"COPY_DST", "STORAGE"}
Untracked == "UNTRACKED"

(***************************************************************************)
(* TrackerSet: buffers and textures map a resource id to its usage; the    *)
(* six other categories hold membership only.                              *)
(***************************************************************************)
EmptyMap == [x \in {} |-> 0]

EmptyTrackerSet ==
    [buffers |-> EmptyMap, textures |-> EmptyMap, views |-> {},
     bind_groups |-> {}, samplers |-> {}, compute_pipes |-> {},
     render_pipes |-> {}, bundles |-> {}]

\* trackers of a session that has recorded something: one buffer, one texture,
\* one bind group and the given views
RecordedTrackers(vs) ==
    [EmptyTrackerSet EXCEPT !.buffers = (1 :> "COPY_DST"),
                            !.textures = (1 :> "STORAGE"),
                            !.bind_groups = {1}, !.views = vs]

\* struct CommandBuffer; raw holds one log of marker calls per raw command buffer
NewCommandBuffer(nraw, vs, sc) ==
    [raw |-> [i \in 1..nraw |-> <<>>],
     is_recording |-> TRUE,
     trackers |-> RecordedTrackers(vs),
     used_swap_chain |-> sc]

(***************************************************************************)
(* CommandBuffer::get_encoder                                              *)
(***************************************************************************)
get_encoder_NoStateCheck(storage, id) ==
    IF id \in DOMAIN storage THEN "Ok" ELSE "Invalid"

get_encoder_NoLookupError(storage, id) ==
    IF id \in DOMAIN storage /\ storage[id].is_recording THEN "Ok"
    ELSE "NotRecording"

get_encoder(storage, id) ==
    IF id \in DOMAIN storage
    THEN IF storage[id].is_recording THEN "Ok" ELSE "NotRecording"
    ELSE "Invalid"

Err(tag) == [tag |-> tag, id |-> None]
Ok(v) == [tag |-> "Ok", id |-> v]
Panic == [tag |-> "Panic", id |-> None]

(***************************************************************************)
(* Global::command_encoder_finish                                          *)
(***************************************************************************)
\* cmd_buf.is_recording = false;
stop_recording_Forgotten(cmd_buf) == cmd_buf

stop_recording(cmd_buf) == [cmd_buf EXCEPT !.is_recording = FALSE]

\* "stop tracking the swapchain image, if used": the trackers afterwards, and
\* whether the expect() on acquired_view_id panicked
untrack_swap_chain_image_AllViews(cmd_buf, sc_guard) ==
    IF cmd_buf.used_swap_chain = None
    THEN [panicked |-> FALSE, trackers |-> cmd_buf.trackers]
    ELSE IF sc_guard[cmd_buf.used_swap_chain] = None
         THEN [panicked |-> TRUE, trackers |-> cmd_buf.trackers]
         ELSE [panicked |-> FALSE,
               trackers |-> [cmd_buf.trackers EXCEPT !.views = {}]]

untrack_swap_chain_image(cmd_buf, sc_guard) ==
    IF cmd_buf.used_swap_chain = None
    THEN [panicked |-> FALSE, trackers |-> cmd_buf.trackers]
    ELSE LET view_id == sc_guard[cmd_buf.used_swap_chain] IN
         IF view_id = None
         THEN [panicked |-> TRUE, trackers |-> cmd_buf.trackers]
         ELSE [panicked |-> FALSE,
               trackers |-> [cmd_buf.trackers EXCEPT !.views = @ \ {view_id}]]

command_encoder_finish(encoder_id) ==
    /\ ncalls < MaxCalls
    /\ ncalls' = ncalls + 1
    /\ call' = [op |-> "finish", id |-> encoder_id, label |-> ""]
    /\ LET got == get_encoder(cmd_bufs, encoder_id) IN
       IF got # "Ok"
       THEN /\ result' = Err(got)
            /\ UNCHANGED <<cmd_bufs, finished_ok>>
       ELSE LET stopped == stop_recording(cmd_bufs[encoder_id])
                un == untrack_swap_chain_image(stopped, swap_chains)
            IN /\ cmd_bufs' = [cmd_bufs EXCEPT ![encoder_id] =
                                  [stopped EXCEPT !.trackers = un.trackers]]
               /\ result' = IF un.panicked THEN Panic ELSE Ok(encoder_id)
               /\ finished_ok' = IF un.panicked THEN finished_ok
                                 ELSE finished_ok \cup {encoder_id}
    /\ UNCHANGED swap_chains
    /\ UNCHANGED <<barVars, pccVars, passVars, thrVars>>

(***************************************************************************)
(* The three debug-marker calls                                            *)
(***************************************************************************)
\* cmd_buf.raw.last_mut().unwrap() followed by one marker call on it
forward_marker_First(cmd_buf, marker) ==
    [cmd_buf EXCEPT !.raw[1] = Append(@, marker)]

forward_marker(cmd_buf, marker) ==
    [cmd_buf EXCEPT !.raw[Len(cmd_buf.raw)] = Append(@, marker)]

debug_marker_call(op, encoder_id, label, marker) ==
    /\ ncalls < MaxCalls
    /\ ncalls' = ncalls + 1
    /\ call' = [op |-> op, id |-> encoder_id, label |-> label]
    /\ LET got == get_encoder(cmd_bufs, encoder_id) IN
       IF got # "Ok"
       THEN /\ result' = Err(got)
            /\ UNCHANGED cmd_bufs
       ELSE IF Len(cmd_bufs[encoder_id].raw) = 0
            THEN /\ result' = Panic
                 /\ UNCHANGED cmd_bufs
            ELSE /\ cmd_bufs' = [cmd_bufs EXCEPT ![encoder_id] =
                                    forward_marker(@, marker)]
                 /\ result' = Ok(None)
    /\ UNCHANGED <<swap_chains, finished_ok>>
    /\ UNCHANGED <<barVars, pccVars, passVars, thrVars>>

command_encoder_push_debug_group(encoder_id, label) ==
    debug_marker_call("push_debug_group", encoder_id, label,
                      [cmd |-> "begin_debug_marker", label |-> label])

command_encoder_insert_debug_marker(encoder_id, label) ==
    debug_marker_call("insert_debug_marker", encoder_id, label,
                      [cmd |-> "insert_debug_marker", label |-> label])

command_encoder_pop_debug_group(encoder_id) ==
    debug_marker_call("pop_debug_group", encoder_id, "",
                      [cmd |-> "end_debug_marker", label |-> ""])

(***************************************************************************)
(* Idle values of the variables a specification does not use               *)
(***************************************************************************)
EncIdle ==
    /\ cmd_bufs = EmptyMap
    /\ swap_chains = [s \in SwapChainIds |-> None]
    /\ call = [op |-> "none", id |-> None, label |-> ""]
    /\ result = [tag |-> "none", id |-> None]
    /\ ncalls = 0
    /\ finished_ok = {}

BarIdle ==
    /\ base = EmptyTrackerSet
    /\ head = EmptyTrackerSet
    /\ base0 = EmptyTrackerSet
    /\ raw_cb = <<>>
    /\ ib_status = "idle"
    /\ ib_failing = {}

PccIdle ==
    /\ offset = 0
    /\ size_bytes = 0
    /\ overflow_checks = FALSE
    /\ count_words = 0
    /\ writes = <<>>
    /\ pcc_pc = "done"

EmptyPass ==
    [commands |-> <<>>, dynamic_offsets |-> <<>>, string_data |-> <<>>,
     push_constant_data |-> <<>>]

PassIdle ==
    /\ pass_ref = EmptyPass
    /\ pass_owned = EmptyPass
    /\ pass_view = EmptyPass
    /\ pass_origin = "none"
    /\ pass_pc = "viewed"

ThrIdle ==
    /\ threads = EmptyMap
    /\ sc_readers = {}
    /\ cb_writer = None
    /\ cmd_bufs0 = EmptyMap

(***************************************************************************)
(* Spec: the encoder lifecycle.  Every session of the storage was created  *)
(* recording, with at least one raw command buffer.                        *)
(***************************************************************************)
\* the session with id `id` holds this many raw command buffers
RawCount(id) == ((id - 1) % MaxRaw) + 1

\* the views it has recorded uses of: all of them for odd ids, all but view 1
\* for even ids
TrackedViews(id) == IF id % 2 = 1 THEN ViewIds ELSE ViewIds \ {1}

\* the view a swap chain hands out when a frame is acquired
FrameView(sc) == ((sc - 1) % NumViews) + 1

InitStorage ==
    /\ \E occupied \in SUBSET EncoderIds :
         \E used \in [occupied -> {None} \cup SwapChainIds] :
           cmd_bufs = [id \in occupied |->
                         NewCommandBuffer(RawCount(id), TrackedViews(id), used[id])]
    /\ \E acquired \in SUBSET SwapChainIds :
         swap_chains = [sc \in SwapChainIds |->
                          IF sc \in acquired THEN FrameView(sc) ELSE None]

Init ==
    /\ InitStorage
    /\ call = [op |-> "none", id |-> None, label |-> ""]
    /\ result = [tag |-> "none", id |-> None]
    /\ ncalls = 0
    /\ finished_ok = {}
    /\ BarIdle
    /\ PccIdle
    /\ PassIdle
    /\ ThrIdle

Finish == \E id \in EncoderIds : command_encoder_finish(id)
PushDebugGroup ==
    \E id \in EncoderIds, l \in Labels : command_encoder_push_debug_group(id, l)
InsertDebugMarker ==
    \E id \in EncoderIds, l \in Labels : command_encoder_insert_debug_marker(id, l)
PopDebugGroup == \E id \in EncoderIds : command_encoder_pop_debug_group(id)

Next ==
    \/ Finish
    \/ PushDebugGroup
    \/ InsertDebugMarker
    \/ PopDebugGroup

Spec == Init /\ [][Next]_vars

(***************************************************************************)
(* Properties of the encoder lifecycle                                     *)
(***************************************************************************)
MarkerOps == {"push_debug_group", "insert_debug_marker", "pop_debug_group"}

\* the step is a call of operation op on encoder id
CallStep(op, id) ==
    /\ ncalls' = ncalls + 1
    /\ call'.op = op
    /\ call'.id = id

IsRecording(id) == id \in DOMAIN cmd_bufs /\ cmd_bufs[id].is_recording
IsFinished(id) == id \in DOMAIN cmd_bufs /\ ~cmd_bufs[id].is_recording

\* the session uses a swap chain whose frame has no acquired view any more
FramePresented(id) ==
    /\ cmd_bufs[id].used_swap_chain # None
    /\ swap_chains[cmd_bufs[id].used_swap_chain] = None

C2_FinishOnFinished ==
    [][\A id \in EncoderIds :
         (CallStep("finish", id) /\ IsFinished(id))
           => /\ result' = Err("NotRecording")
              /\ cmd_bufs'[id].trackers = cmd_bufs[id].trackers
              /\ cmd_bufs'[id].is_recording = cmd_bufs[id].is_recording]_vars

C2_Witness ==
    /\ call.op = "finish"
    /\ result = Err("NotRecording")
    /\ cmd_bufs[call.id].used_swap_chain # None
    /\ cmd_bufs[call.id].trackers.views # {}

\* C3: finish and the three debug-marker calls on an id that is not in the
\* session table return Invalid and modify no session and no raw command buffer.
C3_UnknownIdInvalid ==
    [][\A id \in EncoderIds, op \in MarkerOps \cup {"finish"} :
         (CallStep(op, id) /\ id \notin DOMAIN cmd_bufs)
           => (result' = Err("Invalid") /\ cmd_bufs' = cmd_bufs)]_vars

C3_Witness ==
    /\ call.op = "insert_debug_marker"
    /\ result = Err("Invalid")
    /\ call.id \notin DOMAIN cmd_bufs
    /\ cmd_bufs # EmptyMap

\* C4: the debug-marker calls succeed only on a recording session; once finish
\* has succeeded on a session, every later marker call on it returns
\* NotRecording and forwards nothing to any of its raw command buffers.
C4_MarkersNeedRecording ==
    [][\A id \in EncoderIds, op \in MarkerOps :
         CallStep(op, id)
           => /\ (result'.tag = "Ok" => IsRecording(id))
              /\ (id \in finished_ok
                    => /\ result' = Err("NotRecording")
                       /\ cmd_bufs'[id].raw = cmd_bufs[id].raw)]_vars

C4_Witness ==
    /\ call.op \in MarkerOps
    /\ call.id \in finished_ok
    /\ result = Err("NotRecording")
    /\ \A i \in DOMAIN cmd_bufs[call.id].raw : cmd_bufs[call.id].raw[i] = <<>>

\* C5: a successful finish on a session with used_swap_chain set removes the
\* swap chain's acquired view from the session's view tracker and changes no
\* other tracker entry; without used_swap_chain it leaves all trackers unchanged.
C5_FinishUntracksView ==
    [][\A id \in EncoderIds :
         (CallStep("finish", id) /\ result' = Ok(id))
           => LET cb == cmd_bufs[id] IN
              IF cb.used_swap_chain # None
              THEN /\ swap_chains[cb.used_swap_chain] # None
                   /\ swap_chains[cb.used_swap_chain] \notin cmd_bufs'[id].trackers.views
                   /\ cmd_bufs'[id].trackers =
                        [cb.trackers EXCEPT
                           !.views = @ \ {swap_chains[cb.used_swap_chain]}]
              ELSE cmd_bufs'[id].trackers = cb.trackers]_vars

C5_Witness ==
    /\ call.op = "finish"
    /\ result = Ok(call.id)
    /\ cmd_bufs[call.id].used_swap_chain # None
    /\ swap_chains[cmd_bufs[call.id].used_swap_chain] \notin cmd_bufs[call.id].trackers.views
    /\ cmd_bufs[call.id].trackers.views # {}

(***************************************************************************)
(* Tracker merges (crate::track).  merge_replace overwrites base's entry   *)
(* with head's for every resource of head and yields one pending           *)
(* transition per resource whose usage changed (absent = untracked);       *)
(* merge_extend unions head into base, or fails.                           *)
(***************************************************************************)
UsageOf(map, id) == IF id \in DOMAIN map THEN map[id] ELSE Untracked

RECURSIVE SortedSeq(_)
SortedSeq(S) ==
    IF S = {} THEN <<>>
    ELSE LET m == CHOOSE x \in S : \A y \in S : x <= y
         IN <<m>> \o SortedSeq(S \ {m})

merge_replace(base_map, head_map) ==
    LET changed == {id \in DOMAIN head_map : UsageOf(base_map, id) # head_map[id]}
        ids == SortedSeq(changed)
    IN [map |-> [id \in DOMAIN base_map \cup DOMAIN head_map |->
                   IF id \in DOMAIN head_map THEN head_map[id] ELSE base_map[id]],
        pending |-> [i \in 1..Len(ids) |->
                       [id |-> ids[i],
                        from |-> UsageOf(base_map, ids[i]),
                        to |-> head_map[ids[i]]]]]

merge_extend(base_set, head_set, fails) ==
    IF fails THEN [ok |-> FALSE, set |-> base_set]
    ELSE [ok |-> TRUE, set |-> base_set \cup head_set]

(***************************************************************************)
(* CommandBuffer::insert_barriers                                          *)
(***************************************************************************)
\* pending.into_hal(&guard[pending.id]): the backend barrier descriptor
into_hal(kind, pending) ==
    [i \in 1..Len(pending) |->
       [kind |-> kind, target |-> pending[i].id,
        from |-> pending[i].from, to |-> pending[i].to]]

\* the categories merged with merge_extend(..).unwrap(), in program order
ExtCategories_BundlesSkipped ==
    <<"views", "bind_groups", "samplers", "compute_pipes", "render_pipes">>

ExtCategories ==
    <<"views", "bind_groups", "samplers", "compute_pipes", "render_pipes",
      "bundles">>

\* the unwrap()ed merge_extend calls from the i-th on; stops at the first failure
RECURSIVE extend_from(_, _, _, _)
extend_from(b, h, failing, i) ==
    IF i > Len(ExtCategories) THEN [panicked |-> FALSE, base |-> b]
    ELSE LET c == ExtCategories[i]
             r == merge_extend(b[c], h[c], c \in failing)
         IN IF ~r.ok THEN [panicked |-> TRUE, base |-> b]
            ELSE extend_from([b EXCEPT ![c] = r.set], h, failing, i + 1)

\* buffer_barriers.chain(texture_barriers)
chain_BuffersOnly(buffer_barriers, texture_barriers) == buffer_barriers

chain(buffer_barriers, texture_barriers) == buffer_barriers \o texture_barriers

\* raw.pipeline_barrier(stages..stages, Dependencies::empty(), barriers)
pipeline_barrier(raw, barriers) ==
    Append(raw, [cmd |-> "pipeline_barrier", stages |-> "all_buffer|all_image",
                 barriers |-> barriers])

\* the whole function; failing = the categories whose merge_extend returns Err
insert_barriers_ErrIgnored(raw, b, h, failing) ==
    LET bufs == merge_replace(b.buffers, h.buffers)
        texs == merge_replace(b.textures, h.textures)
        buffer_barriers == into_hal("buffer", bufs.pending)
        texture_barriers == into_hal("texture", texs.pending)
        ext == extend_from([b EXCEPT !.buffers = bufs.map, !.textures = texs.map],
                           h, failing, 1)
    IN [status |-> "returned", base |-> ext.base,
        raw |-> pipeline_barrier(raw, chain(buffer_barriers, texture_barriers))]

insert_barriers(raw, b, h, failing) ==
    LET bufs == merge_replace(b.buffers, h.buffers)
        texs == merge_replace(b.textures, h.textures)
        buffer_barriers == into_hal("buffer", bufs.pending)
        texture_barriers == into_hal("texture", texs.pending)
        ext == extend_from([b EXCEPT !.buffers = bufs.map, !.textures = texs.map],
                           h, failing, 1)
    IN IF ext.panicked
       THEN [status |-> "panicked", base |-> ext.base, raw |-> raw]
       ELSE [status |-> "returned", base |-> ext.base,
             raw |-> pipeline_barrier(raw, chain(buffer_barriers, texture_barriers))]

\* the outcomes of the six merge_extend calls: none fails, or one or two do
FailingSets ==
    {{}} \cup {{ExtCategories[i], ExtCategories[j]} :
                i \in DOMAIN ExtCategories, j \in DOMAIN ExtCategories}

InsertBarriers ==
    /\ ib_status = "idle"
    /\ \E failing \in FailingSets :
         LET r == insert_barriers(raw_cb, base, head, failing) IN
           /\ base' = r.base
           /\ raw_cb' = r.raw
           /\ ib_status' = r.status
           /\ ib_failing' = failing
    /\ base0' = base
    /\ UNCHANGED head
    /\ UNCHANGED <<encVars, pccVars, passVars, thrVars>>

(***************************************************************************)
(* SpecBarriers: insert_barriers applied to every base/head pair holding   *)
(* at most MaxEntries entries in total.                                    *)
(***************************************************************************)
Slots ==
    ({"buffers"} \X BufferIds \X Usages)
      \cup ({"textures"} \X TextureIds \X Usages)
      \cup ({"views", "bind_groups", "samplers", "compute_pipes",
             "render_pipes", "bundles"} \X ExtIds \X {"MEMBER"})

RECURSIVE KSubsets(_, _)
KSubsets(S, k) ==
    IF k <= 0 THEN {{}}
    ELSE LET prev == KSubsets(S, k - 1)
         IN prev \cup {p \cup {x} : p \in prev, x \in S}

OneUsagePerId(E) ==
    \A e1 \in E, e2 \in E : (e1[1] = e2[1] /\ e1[2] = e2[2]) => e1 = e2

MapOf(E, cat) ==
    [id \in {e[2] : e \in {x \in E : x[1] = cat}} |->
       (CHOOSE e \in E : e[1] = cat /\ e[2] = id)[3]]

SetOf(E, cat) == {e[2] : e \in {x \in E : x[1] = cat}}

TrackerOf(E) ==
    [buffers |-> MapOf(E, "buffers"), textures |-> MapOf(E, "textures"),
     views |-> SetOf(E, "views"), bind_groups |-> SetOf(E, "bind_groups"),
     samplers |-> SetOf(E, "samplers"),
     compute_pipes |-> SetOf(E, "compute_pipes"),
     render_pipes |-> SetOf(E, "render_pipes"), bundles |-> SetOf(E, "bundles")]

InitBarriers ==
    /\ \E eb \in KSubsets(Slots, MaxEntries) :
         \E eh \in KSubsets(Slots, MaxEntries - Cardinality(eb)) :
           /\ OneUsagePerId(eb)
           /\ OneUsagePerId(eh)
           /\ base = TrackerOf(eb)
           /\ head = TrackerOf(eh)
    /\ base0 = base
    /\ raw_cb = <<>>
    /\ ib_status = "idle"
    /\ ib_failing = {}
    /\ EncIdle
    /\ PccIdle
    /\ PassIdle
    /\ ThrIdle

NextBarriers == InsertBarriers

SpecBarriers == InitBarriers /\ [][NextBarriers]_vars

(***************************************************************************)
(* Properties of insert_barriers                                           *)
(***************************************************************************)
HazardCategories == {"buffers", "textures"}
MembershipCategories ==
    {"views", "bind_groups", "samplers", "compute_pipes", "render_pipes",
     "bundles"}

\* the barrier list handed to the backend by the call that returned
EmittedBarriers == raw_cb[Len(raw_cb)].barriers

BarriersFor(kind, id) ==
    {i \in DOMAIN EmittedBarriers :
       EmittedBarriers[i].kind = kind /\ EmittedBarriers[i].target = id}

\* C6: after insert_barriers returns, base holds every resource of head, in
\* each of the eight categories, with head's usage.
C6_Convergence ==
    ib_status = "returned" =>
      /\ \A c \in HazardCategories : \A id \in DOMAIN head[c] :
           id \in DOMAIN base[c] /\ base[c][id] = head[c][id]
      /\ \A c \in MembershipCategories : head[c] \subseteq base[c]

C6_Witness ==
    /\ ib_status = "returned"
    /\ base # base0
    /\ \E id \in DOMAIN head.buffers :
         id \in DOMAIN base0.buffers /\ base0.buffers[id] # head.buffers[id]
    /\ head.bundles # {}
    /\ ~(head.bundles \subseteq base0.bundles)

\* C7: the barrier list contains a buffer (texture) barrier for R iff R is in
\* head and its usage in base before the call (absent = untracked) differs from
\* its usage in head; at most one barrier per resource.
C7_BarrierIffChanged ==
    ib_status = "returned" =>
      /\ \A id \in BufferIds :
           /\ BarriersFor("buffer", id) # {}
                <=> (id \in DOMAIN head.buffers
                       /\ UsageOf(base0.buffers, id) # head.buffers[id])
           /\ Cardinality(BarriersFor("buffer", id)) <= 1
      /\ \A id \in TextureIds :
           /\ BarriersFor("texture", id) # {}
                <=> (id \in DOMAIN head.textures
                       /\ UsageOf(base0.textures, id) # head.textures[id])
           /\ Cardinality(BarriersFor("texture", id)) <= 1
      /\ \A i \in DOMAIN EmittedBarriers :
           \/ EmittedBarriers[i].kind = "buffer"
                /\ EmittedBarriers[i].target \in DOMAIN head.buffers
           \/ EmittedBarriers[i].kind = "texture"
                /\ EmittedBarriers[i].target \in DOMAIN head.textures

C7_Witness ==
    /\ ib_status = "returned"
    /\ \E id \in DOMAIN head.textures : BarriersFor("texture", id) # {}
    /\ \E id \in DOMAIN head.buffers : BarriersFor("buffer", id) = {}

\* the combined buffer+texture barrier sequence of the call
CombinedBarriers ==
    merge_replace(base0.buffers, head.buffers).pending
      \o merge_replace(base0.textures, head.textures).pending

PipelineBarrierCount ==
    Cardinality({i \in DOMAIN raw_cb : raw_cb[i].cmd = "pipeline_barrier"})

\* C8: insert_barriers issues a pipeline-barrier command iff the combined
\* buffer+texture barrier sequence is non-empty, and then exactly one; when
\* base already agrees with head on every buffer and texture of head, none.
C8_BarrierOnlyWhenNeeded ==
    ib_status = "returned" =>
      PipelineBarrierCount = IF CombinedBarriers # <<>> THEN 1 ELSE 0

(***************************************************************************)
(* push_constant_clear                                                     *)
(***************************************************************************)
\* PUSH_CONSTANT_CLEAR_ARRAY.len()
PUSH_CONSTANT_CLEAR_ARRAY_LEN == 64

\* A u32 byte offset is held as its 32-bit pattern read as a two's-complement
\* integer: v itself below 2^31, v - 2^32 from 2^31 on (so -4 is u32::MAX - 3).
\* Sizes and word counts stay far below 2^31 and are held as themselves.

\* `a + b` on u32 for a count b < 2^31: the resulting bit pattern, and whether
\* the unsigned sum passed u32::MAX
u32_add(a, b) == [sum |-> a + b, overflow |-> a < 0 /\ a + b >= 0]

\* unsigned a < b on two bit patterns
u32_lt(a, b) == IF (a >= 0) = (b >= 0) THEN a < b ELSE a >= 0

Min(a, b) == IF a < b THEN a ELSE b

\* let size_words = size_bytes / 4;
size_words(bytes) == bytes \div 4

\* let count_bytes = count_words * 4;
count_bytes_Unscaled(words) == words

count_bytes(words) == words * 4

\* (size_words - count_words).min(PUSH_CONSTANT_CLEAR_ARRAY.len() as u32)
size_to_write_words_Unclamped(total_words, done_words) == total_words - done_words

size_to_write_words(total_words, done_words) ==
    Min(total_words - done_words, PUSH_CONSTANT_CLEAR_ARRAY_LEN)

\* one iteration of the while loop: one push_fn call
ClearWrite ==
    /\ pcc_pc = "loop"
    /\ count_words < size_words(size_bytes)
    /\ LET n == size_to_write_words(size_words(size_bytes), count_words)
           at == u32_add(offset, count_bytes(count_words))
       IN IF at.overflow /\ overflow_checks
          THEN \* `offset + count_bytes` overflows: panic in a checked build
               /\ pcc_pc' = "panicked"
               /\ UNCHANGED <<writes, count_words>>
          ELSE /\ writes' = Append(writes, <<at.sum, n>>)
               /\ count_words' = count_words + n
               /\ UNCHANGED pcc_pc
    /\ UNCHANGED <<offset, size_bytes, overflow_checks>>
    /\ UNCHANGED <<encVars, barVars, passVars, thrVars>>

\* the loop condition fails: the function returns
ClearReturn ==
    /\ pcc_pc = "loop"
    /\ ~(count_words < size_words(size_bytes))
    /\ pcc_pc' = "done"
    /\ UNCHANGED <<offset, size_bytes, overflow_checks, count_words, writes>>
    /\ UNCHANGED <<encVars, barVars, passVars, thrVars>>

\* offsets at the start of the range, unaligned, and 260 and 4 below 2^32
Offsets == {0, 6, -260, -4}

InitClear ==
    /\ offset \in Offsets
    /\ size_bytes \in 0..MaxSizeBytes
    /\ overflow_checks \in BOOLEAN
    /\ count_words = 0
    /\ writes = <<>>
    /\ pcc_pc = "loop"
    /\ EncIdle
    /\ BarIdle
    /\ PassIdle
    /\ ThrIdle

NextClear ==
    \/ ClearWrite
    \/ ClearReturn

SpecClear == InitClear /\ [][NextClear]_vars

\* the function runs on its caller's thread, which keeps executing the loop
SpecClearFair == SpecClear /\ WF_vars(NextClear)

(***************************************************************************)
(* Properties of push_constant_clear                                       *)
(***************************************************************************)
\* offset + size_bytes does not pass 2^32
RangeFitsU32 == offset >= 0 \/ offset + size_bytes <= 0

\* each write is non-empty and starts where the previous one ended, at a
\* higher offset
Contiguous ==
    /\ \A i \in 1..Len(writes) : writes[i][2] >= 1
    /\ \A i \in 1..(Len(writes) - 1) :
         /\ writes[i + 1][1] = writes[i][1] + 4 * writes[i][2]
         /\ u32_lt(writes[i][1], writes[i + 1][1])

\* the writes start at `offset` and end after `nbytes` bytes
Covers(nbytes) ==
    IF writes = <<>> THEN nbytes = 0
    ELSE /\ writes[1][1] = offset
         /\ writes[Len(writes)][1] + 4 * writes[Len(writes)][2] = offset + nbytes

CeilDiv(a, b) == (a + b - 1) \div b

\* C9 as stated: for every offset and size the writes are contiguous, start at
\* offset and cover exactly [offset, offset + size).
C9_Original ==
    pcc_pc = "done" => (Contiguous /\ Covers(size_bytes))

\* C9 amended: whenever offset + size fits in u32, the call returns and its
\* writes are contiguous, non-overlapping, in increasing order, start at offset
\* and cover exactly [offset, offset + 4 * floor(size / 4)), which is
\* [offset, offset + size) when size is a multiple of 4; offset 0, size 300
\* gives (0, 64 words) then (256, 11 words).
C9_CoversWholeWords ==
    RangeFitsU32 =>
      /\ pcc_pc # "panicked"
      /\ pcc_pc = "done" =>
           /\ Contiguous
           /\ Covers(4 * (size_bytes \div 4))
           /\ (size_bytes % 4 = 0 => Covers(size_bytes))
           /\ (offset = 0 /\ size_bytes = 300
                 => writes = << <<0, 64>>, <<256, 11>> >>)

C9_Witness ==
    /\ pcc_pc = "done"
    /\ offset = 0
    /\ size_bytes = 300
    /\ writes = << <<0, 64>>, <<256, 11>> >>

\* C10 as stated: for every size, multiples of 4 or not, the sink is invoked
\* exactly ceil(size / 256) times.
C10_Original ==
    pcc_pc = "done" => Len(writes) = CeilDiv(size_bytes, 4 * PUSH_CONSTANT_CLEAR_ARRAY_LEN)

\* C10 amended: a call that returns has invoked the sink exactly
\* ceil(floor(size / 4) / 64) times, which is ceil(size / 256) when size is a
\* multiple of 4 (size 0 included).
C10_CallCount ==
    pcc_pc = "done" =>
      /\ Len(writes) = CeilDiv(size_bytes \div 4, PUSH_CONSTANT_CLEAR_ARRAY_LEN)
      /\ (size_bytes % 4 = 0 =>
            Len(writes) = CeilDiv(size_bytes, 4 * PUSH_CONSTANT_CLEAR_ARRAY_LEN))

C10_Witness ==
    /\ pcc_pc = "done"
    /\ size_bytes % 4 # 0
    /\ Len(writes) = 2
    /\ CeilDiv(size_bytes, 4 * PUSH_CONSTANT_CLEAR_ARRAY_LEN) = 3

(***************************************************************************)
(* BasePass and BasePassRef                                                *)
(***************************************************************************)
\* <[T]>::to_vec: a new vector holding a clone of each element, in order
to_vec(slice) == [i \in 1..Len(slice) |-> slice[i]]

\* BasePass::new
new == EmptyPass

\* BasePass::from_ref
from_ref(b) ==
    [commands |-> to_vec(b.commands),
     dynamic_offsets |-> to_vec(b.dynamic_offsets),
     string_data |-> to_vec(b.string_data),
     push_constant_data |-> to_vec(b.push_constant_data)]

\* BasePass::as_ref
as_ref_OffsetsFromPushConstants(self) ==
    [commands |-> self.commands,
     dynamic_offsets |-> self.push_constant_data,
     string_data |-> self.string_data,
     push_constant_data |-> self.push_constant_data]

as_ref(self) ==
    [commands |-> self.commands,
     dynamic_offsets |-> self.dynamic_offsets,
     string_data |-> self.string_data,
     push_constant_data |-> self.push_constant_data]

New ==
    /\ pass_pc = "start"
    /\ pass_owned' = new
    /\ pass_origin' = "new"
    /\ pass_pc' = "owned"
    /\ UNCHANGED <<pass_ref, pass_view>>
    /\ UNCHANGED <<encVars, barVars, pccVars, thrVars>>

FromRef ==
    /\ pass_pc = "start"
    /\ pass_owned' = from_ref(pass_ref)
    /\ pass_origin' = "from_ref"
    /\ pass_pc' = "owned"
    /\ UNCHANGED <<pass_ref, pass_view>>
    /\ UNCHANGED <<encVars, barVars, pccVars, thrVars>>

AsRef ==
    /\ pass_pc = "owned"
    /\ pass_view' = as_ref(pass_owned)
    /\ pass_pc' = "viewed"
    /\ UNCHANGED <<pass_ref, pass_owned, pass_origin>>
    /\ UNCHANGED <<encVars, barVars, pccVars, thrVars>>

\* sequences over S of length at most n
BoundedSeqs(S, n) == UNION {[1..k -> S] : k \in 0..n}

\* command records, dynamic offsets, label bytes and push-constant words
PassCommands == {"SetBindGroup", "Dispatch"}
PassOffsets == {0, 256}
PassBytes == {104}
PassWords == {0, 7}

InitPass ==
    /\ pass_ref \in [commands : BoundedSeqs(PassCommands, MaxPassLen),
                     dynamic_offsets : BoundedSeqs(PassOffsets, MaxPassLen),
                     string_data : BoundedSeqs(PassBytes, MaxPassLen),
                     push_constant_data : BoundedSeqs(PassWords, MaxPassLen)]
    /\ pass_owned = EmptyPass
    /\ pass_view = EmptyPass
    /\ pass_origin = "none"
    /\ pass_pc = "start"
    /\ EncIdle
    /\ BarIdle
    /\ PccIdle
    /\ ThrIdle

NextPass ==
    \/ New
    \/ FromRef
    \/ AsRef

SpecPass == InitPass /\ [][NextPass]_vars

(***************************************************************************)
(* Properties of BasePass                                                  *)
(***************************************************************************)
\* C11: from_ref followed by as_ref yields the four sequences of the original,
\* equal in content and order (empty ones included); as_ref of BasePass::new()
\* exposes four empty sequences.
C11_RoundTrip ==
    pass_pc = "viewed" =>
      /\ pass_origin = "from_ref" =>
           /\ pass_view.commands = pass_ref.commands
           /\ pass_view.dynamic_offsets = pass_ref.dynamic_offsets
           /\ pass_view.string_data = pass_ref.string_data
           /\ pass_view.push_constant_data = pass_ref.push_constant_data
      /\ pass_origin = "new" =>
           /\ pass_view.commands = <<>>
           /\ pass_view.dynamic_offsets = <<>>
           /\ pass_view.string_data = <<>>
           /\ pass_view.push_constant_data = <<>>

C11_Witness ==
    /\ pass_pc = "viewed"
    /\ pass_origin = "from_ref"
    /\ pass_view.commands = <<"SetBindGroup", "Dispatch">>
    /\ pass_view.dynamic_offsets = <<256>>
    /\ pass_view.string_data = <<>>
    /\ pass_view.push_constant_data = <<7, 0>>

(***************************************************************************)
(* Concurrent calls.  Each thread makes one call; a call runs as the       *)
(* sequence of steps of its function, taking the guards of the hub's       *)
(* tables on the way and dropping them when the function is left (by       *)
(* return, by `?` or by unwinding from a panic).                           *)
(***************************************************************************)
Threads == 1..NumThreads

\* the steps of command_encoder_finish, in program order
FinishProgram_LookupBeforeLock ==
    <<"swap_chains.read", "get_encoder", "command_buffers.write",
      "finish_body", "return">>

FinishProgram_SessionsBeforeSwapChains ==
    <<"command_buffers.write", "swap_chains.read", "get_encoder",
      "finish_body", "return">>

FinishProgram ==
    <<"swap_chains.read", "command_buffers.write", "get_encoder",
      "finish_body", "return">>

\* the steps of each of the three debug-marker functions
MarkerProgram ==
    <<"command_buffers.write", "get_encoder", "marker_body", "return">>

Program(op) == IF op = "finish" THEN FinishProgram ELSE MarkerProgram

Instr(t) ==
    IF threads[t].pc > Len(Program(threads[t].op)) THEN "done"
    ELSE Program(threads[t].op)[threads[t].pc]

\* the raw call each debug-marker function makes
MarkerOf(op, label) ==
    CASE op = "push_debug_group" -> [cmd |-> "begin_debug_marker", label |-> label]
      [] op = "insert_debug_marker" -> [cmd |-> "insert_debug_marker", label |-> label]
      [] OTHER -> [cmd |-> "end_debug_marker", label |-> ""]

\* Registry::write grants the guard when no other guard of the table is held
can_write(writer) == writer = None

\* the session behind the &mut returned by storage.get_mut(id) is the one written
store_EverySession(storage, id, cmd_buf) == [i \in DOMAIN storage |-> cmd_buf]

store(storage, id, cmd_buf) == [storage EXCEPT ![id] = cmd_buf]

Advance(t) == [threads EXCEPT ![t].pc = @ + 1]

\* what no step of a call touches
ThreadFrame ==
    /\ UNCHANGED <<call, result, ncalls, finished_ok, cmd_bufs0>>
    /\ UNCHANGED <<barVars, pccVars, passVars>>

\* hub.swap_chains.read(&mut token)
AcquireSwapChainsRead(t) ==
    /\ Instr(t) = "swap_chains.read"
    /\ sc_readers' = sc_readers \cup {t}
    /\ threads' = Advance(t)
    /\ UNCHANGED <<cmd_bufs, swap_chains, cb_writer>>
    /\ ThreadFrame

\* hub.command_buffers.write(&mut token)
AcquireCommandBuffersWrite(t) ==
    /\ Instr(t) = "command_buffers.write"
    /\ can_write(cb_writer)
    /\ cb_writer' = t
    /\ threads' = Advance(t)
    /\ UNCHANGED <<cmd_bufs, swap_chains, sc_readers>>
    /\ ThreadFrame

\* CommandBuffer::get_encoder(&mut *cmd_buf_guard, encoder_id)?
GetEncoder(t) ==
    /\ Instr(t) = "get_encoder"
    /\ LET got == get_encoder(cmd_bufs, threads[t].id) IN
       threads' = IF got = "Ok" THEN Advance(t)
                  ELSE [threads EXCEPT ![t].result = Err(got),
                                       ![t].pc = Len(Program(threads[t].op))]
    /\ UNCHANGED <<cmd_bufs, swap_chains, sc_readers, cb_writer>>
    /\ ThreadFrame

\* command_encoder_finish from `cmd_buf.is_recording = false` to `Ok(encoder_id)`
FinishBody(t) ==
    /\ Instr(t) = "finish_body"
    /\ LET id == threads[t].id
           stopped == stop_recording(cmd_bufs[id])
           un == untrack_swap_chain_image(stopped, swap_chains)
       IN /\ cmd_bufs' = store(cmd_bufs, id, [stopped EXCEPT !.trackers = un.trackers])
          /\ threads' = [threads EXCEPT
                           ![t].result = IF un.panicked THEN Panic ELSE Ok(id),
                           ![t].pc = @ + 1]
    /\ UNCHANGED <<swap_chains, sc_readers, cb_writer>>
    /\ ThreadFrame

\* a debug-marker function from `cmd_buf.raw.last_mut().unwrap()` to `Ok(())`
MarkerBody(t) ==
    /\ Instr(t) = "marker_body"
    /\ LET id == threads[t].id IN
       IF Len(cmd_bufs[id].raw) = 0
       THEN /\ threads' = [threads EXCEPT ![t].result = Panic, ![t].pc = @ + 1]
            /\ UNCHANGED cmd_bufs
       ELSE /\ cmd_bufs' = store(cmd_bufs, id,
                                 forward_marker(cmd_bufs[id],
                                                MarkerOf(threads[t].op, threads[t].label)))
            /\ threads' = [threads EXCEPT ![t].result = Ok(None),
                                          ![t].forwarded = TRUE,
                                          ![t].pc = @ + 1]
    /\ UNCHANGED <<swap_chains, sc_readers, cb_writer>>
    /\ ThreadFrame

\* the function is left: its guards are dropped
Return(t) ==
    /\ Instr(t) = "return"
    /\ sc_readers' = sc_readers \ {t}
    /\ cb_writer' = IF cb_writer = t THEN None ELSE cb_writer
    /\ threads' = Advance(t)
    /\ UNCHANGED <<cmd_bufs, swap_chains>>
    /\ ThreadFrame

ThreadStep(t) ==
    \/ AcquireSwapChainsRead(t)
    \/ AcquireCommandBuffersWrite(t)
    \/ GetEncoder(t)
    \/ FinishBody(t)
    \/ MarkerBody(t)
    \/ Return(t)

\* the swap chain a session presents to, when it uses one
SwapChainOf(id) == ((id - 1) % NumSwapChains) + 1

\* the debug-marker function called on encoder id: the three take turns
MarkerOpOf(id) ==
    <<"push_debug_group", "insert_debug_marker", "pop_debug_group">>[((id - 1) % 3) + 1]

\* 1 = finish, 2 = a debug-marker call
CallKinds == {1, 2}

CallKey(c) == c[1] * (NumEncoderIds + 1) + c[2]

\* The calls the threads make.  Threads are interchangeable, so the calls are
\* handed out in a fixed order of (kind, id).
InitThreads ==
    /\ \E occupied \in SUBSET EncoderIds :
         \E uses \in SUBSET occupied :
           cmd_bufs = [id \in occupied |->
                         NewCommandBuffer(RawCount(id), TrackedViews(id),
                                          IF id \in uses THEN SwapChainOf(id)
                                          ELSE None)]
    /\ \E acquired \in SUBSET SwapChainIds :
         swap_chains = [sc \in SwapChainIds |->
                          IF sc \in acquired THEN FrameView(sc) ELSE None]
    /\ cmd_bufs0 = cmd_bufs
    /\ \E calls \in [Threads -> CallKinds \X EncoderIds] :
         /\ \A t1 \in Threads, t2 \in Threads :
              t1 < t2 => CallKey(calls[t1]) <= CallKey(calls[t2])
         /\ threads = [t \in Threads |->
                         [op |-> IF calls[t][1] = 1 THEN "finish"
                                 ELSE MarkerOpOf(calls[t][2]),
                          id |-> calls[t][2],
                          label |-> "label", pc |-> 1,
                          result |-> [tag |-> "none", id |-> None],
                          forwarded |-> FALSE]]
    /\ sc_readers = {}
    /\ cb_writer = None
    /\ call = [op |-> "none", id |-> None, label |-> ""]
    /\ result = [tag |-> "none", id |-> None]
    /\ ncalls = 0
    /\ finished_ok = {}
    /\ BarIdle
    /\ PccIdle
    /\ PassIdle

NextThreads == \E t \in Threads : ThreadStep(t)

SpecThreads == InitThreads /\ [][NextThreads]_vars

\* every thread keeps being scheduled
SpecThreadsFair == SpecThreads /\ \A t \in Threads : WF_vars(ThreadStep(t))

(***************************************************************************)
(* Properties of concurrent calls                                          *)
(***************************************************************************)
Done(t) == Instr(t) = "done"
AllDone == \A t \in Threads : Done(t)

FinishThreads(id) == {t \in Threads : threads[t].op = "finish" /\ threads[t].id = id}
MarkerThreads(id) == {t \in Threads : threads[t].op # "finish" /\ threads[t].id = id}
CallersOf(id) == {t \in Threads : threads[t].id = id}

\* before any call, the session uses a swap chain whose frame is presented
FramePresented0(id) ==
    /\ cmd_bufs0[id].used_swap_chain # None
    /\ swap_chains[cmd_bufs0[id].used_swap_chain] = None

\* what finish does to the session `id` of cmd_bufs0 when nothing else runs
FinishedAlone(id) ==
    LET cb == cmd_bufs0[id] IN
    [cb EXCEPT !.is_recording = FALSE,
               !.trackers.views =
                  IF cb.used_swap_chain = None THEN @
                  ELSE @ \ {swap_chains[cb.used_swap_chain]}]

\* C12: concurrent finish calls on sessions with distinct ids each return what
\* they return when run alone and leave their own session as when run alone;
\* no call changes a session other than its own.
C12_DistinctSessionsIndependent ==
    /\ \A id \in DOMAIN cmd_bufs0 : CallersOf(id) = {} => cmd_bufs[id] = cmd_bufs0[id]
    /\ AllDone =>
         \A t \in Threads :
           (threads[t].op = "finish" /\ CallersOf(threads[t].id) = {t}) =>
             LET id == threads[t].id IN
             IF id \notin DOMAIN cmd_bufs0
             THEN threads[t].result = Err("Invalid")
             ELSE /\ cmd_bufs[id] = FinishedAlone(id)
                  /\ threads[t].result =
                       IF FramePresented0(id) THEN Panic ELSE Ok(id)

C12_Witness ==
    /\ AllDone
    /\ \E t1 \in Threads, t2 \in Threads :
         /\ threads[t1].op = "finish" /\ threads[t2].op = "finish"
         /\ threads[t1].id # threads[t2].id
         /\ threads[t1].result = Ok(threads[t1].id)
         /\ threads[t2].result = Ok(threads[t2].id)
         /\ cmd_bufs[threads[t1].id].trackers # cmd_bufs[threads[t2].id].trackers

\* a debug-marker call that got past get_encoder holds the session recording
\* until it returns, and one that returned NotRecording forwarded nothing
MarkerAtomic ==
    \A t \in Threads :
      threads[t].op # "finish" =>
        /\ (Instr(t) = "marker_body"
              \/ (Instr(t) = "return" /\ threads[t].result.tag = "Ok"))
             => cmd_bufs[threads[t].id].is_recording
        /\ threads[t].forwarded => threads[t].result = Ok(None)
        /\ threads[t].result = Err("NotRecording") => ~threads[t].forwarded

OneOkOthersNotRecording(id) ==
    /\ Cardinality({t \in FinishThreads(id) : threads[t].result = Ok(id)}) = 1
    /\ \A t \in FinishThreads(id) :
         threads[t].result = Ok(id) \/ threads[t].result = Err("NotRecording")

LockOrder ==
    \A t \in Threads : Instr(t) = "swap_chains.read" => cb_writer # t

\* a call that has returned holds no guard
ReleasedOnReturn ==
    \A t \in Threads : Done(t) => (t \notin sc_readers /\ cb_writer # t)

\* C15: every call takes the swap-chain guard before the session-table guard,
\* never the other way round, and holds no guard once it has returned; no
\* interleaving of finish and debug-marker calls deadlocks, and under fair
\* scheduling every call eventually returns.
C15_LockOrderAndProgress ==
    /\ [](LockOrder /\ ReleasedOnReturn)
    /\ <>AllDone

C15_Witness ==
    /\ AllDone
    /\ sc_readers = {}
    /\ cb_writer = None
    /\ \E t1 \in Threads, t2 \in Threads :
         /\ threads[t1].id = threads[t2].id
         /\ threads[t1].op = "finish" /\ threads[t1].result = Ok(threads[t1].id)
         /\ threads[t2].op # "finish" /\ threads[t2].result = Err("NotRecording")

(***************************************************************************)
(* Properties of a session across calls                                    *)
(***************************************************************************)
\* C14: once a session's is_recording is false, no step of any finish or
\* debug-marker call, on any id and from any thread, sets it back to true or
\* changes the session's trackers or raw command buffers.
C14_FinishedIsTerminal ==
    [][\A id \in DOMAIN cmd_bufs :
         ~cmd_bufs[id].is_recording
           => /\ id \in DOMAIN cmd_bufs'
              /\ ~cmd_bufs'[id].is_recording
              /\ cmd_bufs'[id].trackers = cmd_bufs[id].trackers
              /\ cmd_bufs'[id].raw = cmd_bufs[id].raw]_vars

C14_Witness ==
    /\ AllDone
    /\ \E t1 \in Threads, t2 \in Threads :
         /\ t1 # t2
         /\ threads[t1].id = threads[t2].id
         /\ threads[t1].op = "finish" /\ threads[t1].result = Ok(threads[t1].id)
         /\ threads[t2].result = Err("NotRecording")
         /\ ~cmd_bufs[threads[t1].id].is_recording
         /\ cmd_bufs[threads[t1].id].raw = cmd_bufs0[threads[t1].id].raw
         /\ cmd_bufs[threads[t1].id] = FinishedAlone(threads[t1].id)

\* C18: a successful debug-marker call on a recording session appends exactly
\* one marker (begin, insert, end for push, insert, pop) to the last raw
\* command buffer of the session, changes no other raw buffer, and leaves
\* is_recording, the trackers and the number of raw buffers unchanged.
C18_MarkerToLastRaw ==
    [][\A id \in EncoderIds, op \in MarkerOps :
         (CallStep(op, id) /\ result'.tag = "Ok")
           => LET cb == cmd_bufs[id]
                  after == cmd_bufs'[id]
                  n == Len(cb.raw)
              IN /\ IsRecording(id)
                 /\ n >= 1
                 /\ Len(after.raw) = n
                 /\ after.raw[n] = Append(cb.raw[n], MarkerOf(op, call'.label))
                 /\ \A i \in 1..(n - 1) : after.raw[i] = cb.raw[i]
                 /\ after.is_recording = cb.is_recording
                 /\ after.trackers = cb.trackers
                 /\ after.used_swap_chain = cb.used_swap_chain
                 /\ \A other \in DOMAIN cmd_bufs \ {id} :
                      cmd_bufs'[other] = cmd_bufs[other]]_vars

C18_Witness ==
    /\ call.op \in MarkerOps
    /\ result.tag = "Ok"
    /\ LET raw == cmd_bufs[call.id].raw IN
       /\ Len(raw) >= 2
       /\ raw[1] = <<>>
       /\ Len(raw[Len(raw)]) >= 1
    /\ cmd_bufs[call.id].is_recording

\* C20: a finish that does not return Ok(id) -- Invalid, NotRecording, or the
\* abort on a swap chain without acquired view -- leaves the session's
\* is_recording flag and trackers as they were before the call.
C20_FinishChangesOnlyOnOk ==
    [][\A id \in EncoderIds :
         (CallStep("finish", id) /\ result' # Ok(id) /\ id \in DOMAIN cmd_bufs)
           => /\ cmd_bufs'[id].is_recording = cmd_bufs[id].is_recording
              /\ cmd_bufs'[id].trackers = cmd_bufs[id].trackers]_vars

(***************************************************************************)
(* insert_barriers when a merge_extend fails                               *)
(***************************************************************************)
\* base holds everything of head, in all eight categories
AdvancedToHead ==
    /\ \A c \in HazardCategories :
         \A id \in DOMAIN head[c] : UsageOf(base[c], id) = head[c][id]
    /\ \A c \in MembershipCategories : head[c] \subseteq base[c]

\* C16: a call of insert_barriers either issues the pipeline barrier and
\* advances base to head in all eight categories, or (when a merge_extend
\* fails) leaves base unchanged in every category and issues no backend command.
C16_AllOrNothing ==
    /\ ib_status = "returned" => (PipelineBarrierCount = 1 /\ AdvancedToHead)
    /\ ib_status = "panicked" => (base = base0 /\ raw_cb = <<>>)

\* position in program order of the first merge_extend that failed
FirstFailing ==
    CHOOSE i \in DOMAIN ExtCategories :
      /\ ExtCategories[i] \in ib_failing
      /\ \A j \in 1..(i - 1) : ExtCategories[j] \notin ib_failing

\* C17: when a merge_extend fails, insert_barriers panics at the first failing
\* category -- the categories before it are merged, it and the ones after it
\* are not -- it does not return, and no pipeline barrier is issued.
C17_ExtendFailureFatal ==
    (ib_status # "idle" /\ ib_failing # {}) =>
      /\ ib_status = "panicked"
      /\ PipelineBarrierCount = 0
      /\ raw_cb = <<>>
      /\ \A i \in DOMAIN ExtCategories :
           LET c == ExtCategories[i] IN
           base[c] = IF i < FirstFailing THEN base0[c] \cup head[c] ELSE base0[c]

C17_Witness ==
    /\ ib_status = "panicked"
    /\ Cardinality(ib_failing) = 2
    /\ \E i \in DOMAIN ExtCategories :
         /\ i < FirstFailing
         /\ base[ExtCategories[i]] # base0[ExtCategories[i]]
    /\ \E i \in DOMAIN ExtCategories :
         /\ i > FirstFailing
         /\ ExtCategories[i] \notin ib_failing
         /\ ~(head[ExtCategories[i]] \subseteq base[ExtCategories[i]])

(***************************************************************************)
(* Termination and slice sizes of push_constant_clear                      *)
(***************************************************************************)
\* every slice has 1..64 words, and only the last one may have fewer than 64
SliceBounds ==
    \A i \in 1..Len(writes) :
      /\ writes[i][2] >= 1
      /\ writes[i][2] <= PUSH_CONSTANT_CLEAR_ARRAY_LEN
      /\ (i < Len(writes) => writes[i][2] = PUSH_CONSTANT_CLEAR_ARRAY_LEN)

\* the loop was left: by return, or by the overflow panic of a checked build
\* when offset + size_bytes passes 2^32
Terminated ==
    \/ pcc_pc = "done"
    \/ pcc_pc = "panicked" /\ overflow_checks /\ ~RangeFitsU32

\* C19: for every offset and size push_constant_clear terminates, and every
\* slice passed to the sink has at least 1 and at most 64 words, only the last
\* one being allowed fewer than 64.
C19_TerminatesWithBoundedSlices ==
    /\ []SliceBounds
    /\ <>Terminated

C19_Witness ==
    /\ pcc_pc = "done"
    /\ Len(writes) = 3
    /\ writes[1][2] = PUSH_CONSTANT_CLEAR_ARRAY_LEN
    /\ writes[2][2] = PUSH_CONSTANT_CLEAR_ARRAY_LEN
    /\ writes[3][2] = 1
    /\ offset # 0

====
